---- MODULE Spec2Model ----
(***************************************************************************)
(* The SAMES launch program (programs/sames): presale, bonding curve,      *)
(* graduation.  One launch pool, its buyer records, the SOL vault and the  *)
(* token mint.  Every instruction is one atomic step; an instruction that  *)
(* returns Err is rolled back by the runtime and is a stuttering step.     *)
(***************************************************************************)
EXTENDS Integers, Sequences, FiniteSets, TLC

VARIABLES launch_pool, buyer_record, now, vault, minted, token_balance,
          finalize_count, curve_ops, market_registry, calc, transfer_ops

vars == <<launch_pool, buyer_record, now, vault, minted, token_balance,
          finalize_count, curve_ops, market_registry, calc, transfer_ops>>

(***************************************************************************)
(* Program constants.                                                      *)
(***************************************************************************)
PRESALE_DURATION == 30
DEFAULT_SLOPE == 100
PLATFORM_FEE_BPS == 100
\* the literal 1_000_000_000 that scales slope_scaled
SLOPE_SCALE == 1000000000
\* the literal 10_000 of the fee computation
BPS_DENOMINATOR == 10000
\* MarketRegistry::MAX_MARKETS
MAX_MARKETS == 16
\* BuyerRecord::MAX_SIZE
BUYER_RECORD_MAX_SIZE == 8 + 32 + 32 + 8 + 8 + 8 + 8 + 8 + 8 + 1 + 32

(***************************************************************************)
(* Bounds of the model.                                                    *)
(***************************************************************************)
\* the clock stops here
MaxNow == 30
\* presale deposits are taken while the presale total stays within this
MaxPresaleTotal == 10
\* successful curve trades (buy_curve + sell_curve) explored per launch
MaxCurveOps == 3
\* successful finalize_launch calls explored per buyer record
MaxFinalize == 2
\* register_market calls explored beside the launch's other instructions
MaxRegistered == 1
\* successful token transfers explored per launch
MaxTransfers == 2
\* successful curve trades explored beside registrations and transfers
MaxHookTrades == 2
\* pool.graduation_threshold as set at creation.  The program's
\* DEFAULT_GRADUATION_THRESHOLD is 69_000_000_000 lamports, beyond the
\* integers of the model checker; the threshold is only ever compared with
\* curve_sol_collected, and the model uses one that the explored trades reach.
GraduationThreshold == 25000000

Buyers == {"alice", "bob"}
Creator == "creator"
Signers == Buyers \cup {Creator}
\* token accounts of markets, and all token accounts (a buyer's is named by
\* its owner)
Markets == {"amm", "dex"}
TokenAccounts == Buyers \cup Markets

\* instruction arguments explored
\* token names of 32 and 33 bytes, token symbols of 10 and 11 bytes
NameInputs ==
    {"Same As Market Entry Sale Tokens",
     "Same As Market Entry Sale Tokens2"}
SymbolInputs == {"SAMESTOKEN", "SAMESTOKENS"}
SupplyInputs == {0, 1000}
PriceInputs == {0, 1, 2}
CreatePriceInputs == {0, 2}
PresaleInputs == {0, 3, 7}
CurveInputs == {0, 15000000, 25000000}
SellInputs == {0, 1000, 10000000}
TickInputs == {15, 30}
TransferInputs == {1000}

\* Option::None
None == -1

(***************************************************************************)
(* Wide arithmetic.  The program multiplies in u128; the products do not   *)
(* fit the model checker's integers, so a*b/d is computed without ever     *)
(* forming a*b.  MulDivQR(a, b, d) = <<q, r>> with a*b = q*d + r, 0<=r<d;   *)
(* a product within 2147483647 is formed directly.                         *)
(***************************************************************************)
RECURSIVE MulDivQR(_, _, _)
MulDivQR(a, b, d) ==
    IF a = 0 \/ b = 0 THEN <<0, 0>>
    ELSE IF b <= 2147483647 \div a THEN <<(a * b) \div d, (a * b) % d>>
    ELSE LET h  == MulDivQR(a, b \div 2, d)
             c1 == IF h[2] >= d - h[2] THEN 1 ELSE 0
             r1 == IF c1 = 1 THEN h[2] - (d - h[2]) ELSE h[2] + h[2]
             qa == IF b % 2 = 1 THEN a \div d ELSE 0
             ra == IF b % 2 = 1 THEN a % d ELSE 0
             c2 == IF r1 >= d - ra THEN 1 ELSE 0
             r2 == IF c2 = 1 THEN r1 - (d - ra) ELSE r1 + ra
         IN  <<2 * h[1] + c1 + qa + c2, r2>>

\* floor(a*b / d)
MulDiv(a, b, d) == MulDivQR(a, b, d)[1]

\* floor(a*b*c / d)
MulMulDiv(a, b, c, d) ==
    LET ab == MulDivQR(a, b, d)
    IN  ab[1] * c + MulDiv(ab[2], c, d)

\* u64::saturating_sub
saturating_sub(a, b) == IF a >= b THEN a - b ELSE 0

(***************************************************************************)
(* state.rs: bonding curve math                                            *)
(***************************************************************************)
RECURSIVE isqrt_loop(_, _, _)
isqrt_loop(n, x, y) ==
    IF y < x THEN isqrt_loop(n, y, (y + n \div y) \div 2) ELSE x

\* a square root that stops after the first Newton step
isqrt_u128_first_step(n) == IF n = 0 THEN 0 ELSE (n + 1) \div 2

isqrt_u128(n) == IF n = 0 THEN 0 ELSE isqrt_loop(n, n, (n + 1) \div 2)

\* The None results on u128/u64 overflow need operands far above the explored
\* ranges; the only None reachable here is a division by zero.
bonding_curve_cost(base_price, slope_scaled, tokens_sold, amount) ==
    LET base_cost == base_price * amount
        two_sold_plus_amount == 2 * tokens_sold + amount
        slope_cost == MulMulDiv(slope_scaled, amount, two_sold_plus_amount,
                                2 * SLOPE_SCALE)
    IN  base_cost + slope_cost

\* the flat-price division rounding up
bonding_curve_tokens_for_sol_round_up(base_price, slope_scaled, tokens_sold, sol_amount) ==
    IF slope_scaled = 0
    THEN IF base_price = 0 THEN None
         ELSE (sol_amount + base_price - 1) \div base_price
    ELSE LET a_num == slope_scaled
             b == base_price + MulDiv(slope_scaled, tokens_sold, SLOPE_SCALE)
             c == sol_amount
             b_squared == b * b
             four_ac == MulMulDiv(2, a_num, c, SLOPE_SCALE)
             discriminant == b_squared + four_ac
             sqrt_disc == isqrt_u128(discriminant)
         IN  IF sqrt_disc <= b THEN 0
             ELSE MulDiv(sqrt_disc - b, SLOPE_SCALE, a_num)

bonding_curve_tokens_for_sol(base_price, slope_scaled, tokens_sold, sol_amount) ==
    IF slope_scaled = 0
    THEN IF base_price = 0 THEN None ELSE sol_amount \div base_price
    ELSE LET a_num == slope_scaled
             b == base_price + MulDiv(slope_scaled, tokens_sold, SLOPE_SCALE)
             c == sol_amount
             b_squared == b * b
             four_ac == MulMulDiv(2, a_num, c, SLOPE_SCALE)
             discriminant == b_squared + four_ac
             sqrt_disc == isqrt_u128(discriminant)
         IN  IF sqrt_disc <= b THEN 0
             ELSE MulDiv(sqrt_disc - b, SLOPE_SCALE, a_num)

\* the spot price without the slope term
bonding_curve_price_base_only(base_price, slope_scaled, tokens_sold) ==
    base_price

bonding_curve_price(base_price, slope_scaled, tokens_sold) ==
    base_price + MulDiv(slope_scaled, tokens_sold, SLOPE_SCALE)

(***************************************************************************)
(* state.rs: LaunchPool, BuyerRecord                                       *)
(***************************************************************************)
\* a zeroed, not yet initialised LaunchPool account
EmptyPool ==
    [created |-> FALSE, creator |-> "none", token_name |-> "",
     token_symbol |-> "", total_supply |-> 0,
     price_lamports |-> 0, slope_scaled |-> 0, tokens_sold_curve |-> 0,
     curve_sol_collected |-> 0, start_time |-> 0, end_time |-> 0,
     total_sol_collected |-> 0, buyer_count |-> 0,
     graduation_threshold |-> 0, status |-> "Presale"]

\* a zeroed, not yet initialised BuyerRecord account
EmptyRecord ==
    [exists |-> FALSE, sol_deposited |-> 0, entry_price |-> 0,
     tokens_allocated |-> 0, tokens_sold |-> 0, curve_sol_spent |-> 0,
     curve_tokens_bought |-> 0]

\* the MarketRegistry account before create_launch initialises it
EmptyRegistry == [authority |-> "none", market_accounts |-> <<>>]

\* no curve computation in progress
IdleCalc ==
    [base_price |-> 0, slope_scaled |-> 0, tokens_sold |-> 0, sol_amount |-> 0,
     amount |-> 0, done |-> {}, tokens |-> 0, tokens_cost |-> 0, cost |-> 0,
     cost_tokens |-> 0, price |-> 0]

is_presale_active(pool, t) ==
    pool.status = "Presale" /\ t >= pool.start_time /\ t < pool.end_time

\* the presale counted as over from its first instant
is_presale_over_from_start(pool, t) == t >= pool.start_time

is_presale_over(pool, t) == t >= pool.end_time

should_graduate(pool) ==
    pool.status = "BondingCurve"
        /\ pool.curve_sol_collected >= pool.graduation_threshold

\* an average rounded up
average_entry_price_round_up(rec) ==
    LET total_sol == rec.sol_deposited + rec.curve_sol_spent
        total_tokens == rec.tokens_allocated + rec.curve_tokens_bought
    IN  IF total_tokens = 0 THEN 0
        ELSE (total_sol + total_tokens - 1) \div total_tokens

\* total_sol * 1e9 / total_tokens / 1e9, the scaled quotient split into
\* whole * 1e9 + scaled_rest so that no product leaves the integer range
average_entry_price(rec) ==
    LET total_sol == rec.sol_deposited + rec.curve_sol_spent
        total_tokens == rec.tokens_allocated + rec.curve_tokens_bought
        whole == total_sol \div total_tokens
        scaled_rest == MulDiv(total_sol % total_tokens, 1000000000,
                              total_tokens)
    IN  IF total_tokens = 0 THEN 0
        ELSE whole + scaled_rest \div 1000000000

\* the accounts before any instruction has run
NoLaunch ==
    /\ launch_pool = EmptyPool
    /\ buyer_record = [b \in Buyers |-> EmptyRecord]
    /\ now = 0
    /\ vault = 0
    /\ minted = 0
    /\ token_balance = [a \in TokenAccounts |-> 0]
    /\ finalize_count = [b \in Buyers |-> 0]
    /\ curve_ops = 0
    /\ market_registry = EmptyRegistry
    /\ transfer_ops = 0

Init ==
    /\ NoLaunch
    /\ calc = IdleCalc

(***************************************************************************)
(* lib.rs: create_launch                                                   *)
(***************************************************************************)
\* create_launch accepting a zero price
create_launch_result_any_price(token_name, token_symbol, total_supply, price_lamports) ==
    IF launch_pool.created THEN "AccountAlreadyInUse"
    ELSE IF ~(Len(token_name) <= 32) THEN "NameTooLong"
    ELSE IF ~(Len(token_symbol) <= 10) THEN "SymbolTooLong"
    ELSE IF ~(total_supply > 0) THEN "ZeroSupply"
    ELSE "Ok"

create_launch_result(token_name, token_symbol, total_supply, price_lamports) ==
    IF launch_pool.created THEN "AccountAlreadyInUse"
    ELSE IF ~(Len(token_name) <= 32) THEN "NameTooLong"
    ELSE IF ~(Len(token_symbol) <= 10) THEN "SymbolTooLong"
    ELSE IF ~(total_supply > 0) THEN "ZeroSupply"
    ELSE IF ~(price_lamports > 0) THEN "ZeroPrice"
    ELSE "Ok"

CreateLaunch(signer, token_name, token_symbol, total_supply, price_lamports) ==
    /\ create_launch_result(token_name, token_symbol, total_supply,
                            price_lamports) = "Ok"
    /\ launch_pool' =
         [created |-> TRUE, creator |-> signer, token_name |-> token_name,
          token_symbol |-> token_symbol, total_supply |-> total_supply,
          price_lamports |-> price_lamports, slope_scaled |-> DEFAULT_SLOPE,
          tokens_sold_curve |-> 0, curve_sol_collected |-> 0,
          start_time |-> now, end_time |-> now + PRESALE_DURATION,
          total_sol_collected |-> 0, buyer_count |-> 0,
          graduation_threshold |-> GraduationThreshold, status |-> "Presale"]
    /\ market_registry' =
         [authority |-> signer, market_accounts |-> <<>>]
    /\ UNCHANGED <<buyer_record, now, vault, minted, token_balance,
                   finalize_count, curve_ops, calc, transfer_ops>>

(***************************************************************************)
(* lib.rs: buy_presale                                                     *)
(***************************************************************************)
\* buy_presale with the window closed one instant late (now <= end_time)
buy_presale_result_inclusive_end(sol_amount) ==
    IF ~launch_pool.created THEN "AccountNotInitialized"
    ELSE IF ~(sol_amount > 0) THEN "ZeroDeposit"
    ELSE IF ~(now >= launch_pool.start_time) THEN "PresaleNotStarted"
    ELSE IF ~(now <= launch_pool.end_time) THEN "PresaleEnded"
    ELSE IF ~(launch_pool.status = "Presale") THEN "AlreadyFinalized"
    ELSE "Ok"

\* buy_presale without its check of the end of the window
buy_presale_result_no_end(sol_amount) ==
    IF ~launch_pool.created THEN "AccountNotInitialized"
    ELSE IF ~(sol_amount > 0) THEN "ZeroDeposit"
    ELSE IF ~(now >= launch_pool.start_time) THEN "PresaleNotStarted"
    ELSE IF ~(launch_pool.status = "Presale") THEN "AlreadyFinalized"
    ELSE "Ok"

buy_presale_result(sol_amount) ==
    IF ~launch_pool.created THEN "AccountNotInitialized"
    ELSE IF ~(sol_amount > 0) THEN "ZeroDeposit"
    ELSE IF ~(now >= launch_pool.start_time) THEN "PresaleNotStarted"
    ELSE IF ~(now < launch_pool.end_time) THEN "PresaleEnded"
    ELSE IF ~(launch_pool.status = "Presale") THEN "AlreadyFinalized"
    ELSE "Ok"

\* a deposit that overwrites sol_deposited instead of accumulating it
presale_record_overwrite(rec, pool, sol_amount) ==
    [rec EXCEPT !.exists = TRUE, !.entry_price = pool.price_lamports,
                !.sol_deposited = sol_amount]

\* the buyer record after a deposit: initialised on the first deposit, then
\* sol_deposited accumulated
presale_record(rec, pool, sol_amount) ==
    LET first == rec.sol_deposited = 0 /\ rec.curve_sol_spent = 0
        rec1 == IF first
                THEN [rec EXCEPT !.exists = TRUE,
                                 !.entry_price = pool.price_lamports,
                                 !.tokens_allocated = 0,
                                 !.tokens_sold = 0,
                                 !.curve_sol_spent = 0,
                                 !.curve_tokens_bought = 0]
                ELSE rec
    IN  [rec1 EXCEPT !.sol_deposited = @ + sol_amount]

BuyPresale(buyer, sol_amount) ==
    /\ buy_presale_result(sol_amount) = "Ok"
    /\ launch_pool.total_sol_collected + sol_amount <= MaxPresaleTotal
    /\ LET rec == buyer_record[buyer]
           first == rec.sol_deposited = 0 /\ rec.curve_sol_spent = 0
       IN  /\ vault' = vault + sol_amount
           /\ launch_pool' =
                [launch_pool EXCEPT
                   !.total_sol_collected = @ + sol_amount,
                   !.buyer_count = IF first THEN @ + 1 ELSE @]
           /\ buyer_record' =
                [buyer_record EXCEPT
                   ![buyer] = presale_record(rec, launch_pool, sol_amount)]
    /\ UNCHANGED <<now, minted, token_balance, finalize_count, curve_ops,
                   market_registry, calc, transfer_ops>>

(***************************************************************************)
(* lib.rs: finalize_launch                                                 *)
(***************************************************************************)
\* the allocation rounded up instead of down
finalize_tokens_round_up(rec, pool) ==
    (rec.sol_deposited * pool.total_supply + pool.total_sol_collected - 1)
        \div pool.total_sol_collected

finalize_tokens(rec, pool) ==
    (rec.sol_deposited * pool.total_supply) \div pool.total_sol_collected

\* finalize_launch without its status check
finalize_launch_check_any_status(pool, rec, signer, t) ==
    IF ~pool.created \/ ~rec.exists THEN "AccountNotInitialized"
    ELSE IF ~(pool.creator = signer) THEN "UnauthorizedCreator"
    ELSE IF ~is_presale_over(pool, t) THEN "PresaleStillActive"
    ELSE IF ~(rec.sol_deposited > 0) THEN "ZeroDeposit"
    ELSE IF pool.total_sol_collected = 0 THEN "MathOverflow"
    ELSE "Ok"

\* the checks of finalize_launch on a launch pool and a buyer record at time t
finalize_launch_check(pool, rec, signer, t) ==
    IF ~pool.created \/ ~rec.exists THEN "AccountNotInitialized"
    ELSE IF ~(pool.creator = signer) THEN "UnauthorizedCreator"
    ELSE IF ~is_presale_over(pool, t) THEN "PresaleStillActive"
    ELSE IF ~(pool.status = "Presale") THEN "AlreadyFinalized"
    ELSE IF ~(rec.sol_deposited > 0) THEN "ZeroDeposit"
    ELSE IF pool.total_sol_collected = 0 THEN "MathOverflow"
    ELSE "Ok"

finalize_launch_result(signer, buyer) ==
    finalize_launch_check(launch_pool, buyer_record[buyer], signer, now)

FinalizeLaunch(signer, buyer) ==
    /\ finalize_launch_result(signer, buyer) = "Ok"
    /\ finalize_count[buyer] < MaxFinalize
    /\ LET tokens == finalize_tokens(buyer_record[buyer], launch_pool)
       IN  /\ buyer_record' =
                [buyer_record EXCEPT
                   ![buyer].tokens_allocated = tokens,
                   ![buyer].entry_price = launch_pool.price_lamports]
           /\ minted' = minted + tokens
           /\ token_balance' = [token_balance EXCEPT ![buyer] = @ + tokens]
    /\ finalize_count' = [finalize_count EXCEPT ![buyer] = @ + 1]
    /\ UNCHANGED <<launch_pool, now, vault, curve_ops,
                   market_registry, calc, transfer_ops>>

(***************************************************************************)
(* lib.rs: start_bonding_curve                                             *)
(***************************************************************************)
\* start_bonding_curve without its status check
start_bonding_curve_result_any_status(signer) ==
    IF ~launch_pool.created THEN "AccountNotInitialized"
    ELSE IF ~(launch_pool.creator = signer) THEN "UnauthorizedCreator"
    ELSE IF ~is_presale_over(launch_pool, now) THEN "PresaleStillActive"
    ELSE "Ok"

start_bonding_curve_result(signer) ==
    IF ~launch_pool.created THEN "AccountNotInitialized"
    ELSE IF ~(launch_pool.creator = signer) THEN "UnauthorizedCreator"
    ELSE IF ~(launch_pool.status = "Presale") THEN "AlreadyFinalized"
    ELSE IF ~is_presale_over(launch_pool, now) THEN "PresaleStillActive"
    ELSE "Ok"

StartBondingCurve(signer) ==
    /\ start_bonding_curve_result(signer) = "Ok"
    /\ launch_pool' = [launch_pool EXCEPT !.status = "BondingCurve"]
    /\ UNCHANGED <<buyer_record, now, vault, minted, token_balance,
                   finalize_count, curve_ops,
                   market_registry, calc, transfer_ops>>

(***************************************************************************)
(* lib.rs: buy_curve                                                       *)
(***************************************************************************)
buy_curve_tokens(sol_amount) ==
    bonding_curve_tokens_for_sol(launch_pool.price_lamports,
                                 launch_pool.slope_scaled,
                                 launch_pool.tokens_sold_curve, sol_amount)

\* the cost of a purchase without the slope
buy_curve_cost_flat(tokens) ==
    launch_pool.price_lamports * tokens

buy_curve_cost(tokens) ==
    bonding_curve_cost(launch_pool.price_lamports, launch_pool.slope_scaled,
                       launch_pool.tokens_sold_curve, tokens)

\* a transfer of all the funds offered
buy_curve_transfer_all(sol_amount, cost) == sol_amount

\* the lamports buy_curve moves from the buyer to the vault
buy_curve_transfer(sol_amount, cost) == cost

\* buy_curve without its check of the cost against the funds offered
buy_curve_result_no_cost_check(sol_amount) ==
    IF ~launch_pool.created THEN "AccountNotInitialized"
    ELSE IF ~(sol_amount > 0) THEN "ZeroDeposit"
    ELSE IF ~(launch_pool.status = "BondingCurve") THEN "NotBondingCurve"
    ELSE IF buy_curve_tokens(sol_amount) = None THEN "MathOverflow"
    ELSE IF ~(buy_curve_tokens(sol_amount) > 0) THEN "ZeroDeposit"
    ELSE "Ok"

buy_curve_result(sol_amount) ==
    IF ~launch_pool.created THEN "AccountNotInitialized"
    ELSE IF ~(sol_amount > 0) THEN "ZeroDeposit"
    ELSE IF ~(launch_pool.status = "BondingCurve") THEN "NotBondingCurve"
    ELSE IF buy_curve_tokens(sol_amount) = None THEN "MathOverflow"
    ELSE IF ~(buy_curve_tokens(sol_amount) > 0) THEN "ZeroDeposit"
    ELSE IF ~(buy_curve_cost(buy_curve_tokens(sol_amount)) <= sol_amount)
         THEN "InsufficientBalance"
    ELSE "Ok"

BuyCurve(buyer, sol_amount) ==
    /\ buy_curve_result(sol_amount) = "Ok"
    /\ curve_ops < MaxCurveOps
    /\ LET tokens == buy_curve_tokens(sol_amount)
           cost == buy_curve_cost(tokens)
           rec == buyer_record[buyer]
           first == rec.sol_deposited = 0 /\ rec.curve_sol_spent = 0
           rec1 == IF first
                   THEN [rec EXCEPT !.exists = TRUE, !.tokens_allocated = 0,
                                    !.tokens_sold = 0]
                   ELSE rec
           rec2 == [rec1 EXCEPT !.curve_sol_spent = @ + cost,
                                !.curve_tokens_bought = @ + tokens]
           total_sol == rec2.sol_deposited + rec2.curve_sol_spent
           total_tkns == rec2.tokens_allocated + rec2.curve_tokens_bought
           rec3 == IF total_tkns > 0
                   THEN [rec2 EXCEPT !.entry_price = total_sol \div total_tkns]
                   ELSE rec2
       IN  /\ vault' = vault + buy_curve_transfer(sol_amount, cost)
           /\ minted' = minted + tokens
           /\ token_balance' = [token_balance EXCEPT ![buyer] = @ + tokens]
           /\ launch_pool' =
                [launch_pool EXCEPT
                   !.tokens_sold_curve = @ + tokens,
                   !.curve_sol_collected = @ + cost,
                   !.buyer_count = IF first THEN @ + 1 ELSE @]
           /\ buyer_record' = [buyer_record EXCEPT ![buyer] = rec3]
    /\ curve_ops' = curve_ops + 1
    /\ UNCHANGED <<now, finalize_count,
                   market_registry, calc, transfer_ops>>

(***************************************************************************)
(* lib.rs: sell_curve                                                      *)
(* The refund out of the vault and the burn are the custody and token      *)
(* collaborators' operations: each fails, and with it the instruction, on  *)
(* an insufficient balance.                                                *)
(***************************************************************************)
\* the balance check forgetting what was already sold
sell_available_ignoring_sold(rec) ==
    rec.tokens_allocated + rec.curve_tokens_bought

sell_available(rec) ==
    saturating_sub(rec.tokens_allocated + rec.curve_tokens_bought,
                   rec.tokens_sold)

sell_current_price ==
    bonding_curve_price(launch_pool.price_lamports, launch_pool.slope_scaled,
                        launch_pool.tokens_sold_curve)

\* the refund priced from the current curve position upwards
sell_return_raw_from_current(token_amount) ==
    bonding_curve_cost(launch_pool.price_lamports, launch_pool.slope_scaled,
                       launch_pool.tokens_sold_curve, token_amount)

sell_return_raw(token_amount) ==
    bonding_curve_cost(launch_pool.price_lamports, launch_pool.slope_scaled,
                       saturating_sub(launch_pool.tokens_sold_curve,
                                      token_amount),
                       token_amount)

sell_fee(sol_return_raw) ==
    MulDiv(sol_return_raw, PLATFORM_FEE_BPS, BPS_DENOMINATOR)

sell_return(token_amount) ==
    saturating_sub(sell_return_raw(token_amount),
                   sell_fee(sell_return_raw(token_amount)))

\* sell_curve without its price floor check
sell_curve_result_no_floor(seller, token_amount) ==
    IF ~launch_pool.created \/ ~buyer_record[seller].exists
    THEN "AccountNotInitialized"
    ELSE IF ~(token_amount > 0) THEN "ZeroSellAmount"
    ELSE IF ~(launch_pool.status = "BondingCurve") THEN "NotBondingCurve"
    ELSE IF ~(token_amount <= sell_available(buyer_record[seller]))
         THEN "InsufficientBalance"
    ELSE IF vault < sell_return(token_amount) THEN "VaultUnderflow"
    ELSE IF token_balance[seller] < token_amount THEN "TokenInsufficientFunds"
    ELSE "Ok"

sell_curve_result(seller, token_amount) ==
    IF ~launch_pool.created \/ ~buyer_record[seller].exists
    THEN "AccountNotInitialized"
    ELSE IF ~(token_amount > 0) THEN "ZeroSellAmount"
    ELSE IF ~(launch_pool.status = "BondingCurve") THEN "NotBondingCurve"
    ELSE IF ~(token_amount <= sell_available(buyer_record[seller]))
         THEN "InsufficientBalance"
    ELSE IF ~(sell_current_price >= buyer_record[seller].entry_price)
         THEN "SellBelowEntry"
    ELSE IF vault < sell_return(token_amount) THEN "VaultUnderflow"
    ELSE IF token_balance[seller] < token_amount THEN "TokenInsufficientFunds"
    ELSE "Ok"

SellCurve(seller, token_amount) ==
    /\ sell_curve_result(seller, token_amount) = "Ok"
    /\ curve_ops < MaxCurveOps
    /\ LET sol_return_raw == sell_return_raw(token_amount)
           sol_return == sell_return(token_amount)
       IN  /\ vault' = vault - sol_return
           /\ launch_pool' =
                [launch_pool EXCEPT
                   !.tokens_sold_curve = saturating_sub(@, token_amount),
                   !.curve_sol_collected = saturating_sub(@, sol_return_raw)]
           /\ buyer_record' =
                [buyer_record EXCEPT ![seller].tokens_sold = @ + token_amount]
           /\ token_balance' = [token_balance EXCEPT ![seller] = @ - token_amount]
           /\ minted' = minted - token_amount
    /\ curve_ops' = curve_ops + 1
    /\ UNCHANGED <<now, finalize_count,
                   market_registry, calc, transfer_ops>>

(***************************************************************************)
(* lib.rs: graduate, update_price                                          *)
(***************************************************************************)
\* graduate asking for more than the threshold
graduate_check_above_threshold(pool) ==
    IF ~pool.created THEN "AccountNotInitialized"
    ELSE IF ~(pool.status = "BondingCurve") THEN "NotBondingCurve"
    ELSE IF ~(pool.curve_sol_collected > pool.graduation_threshold)
         THEN "NotReadyToGraduate"
    ELSE "Ok"

\* the checks of graduate on a launch pool account
graduate_check(pool) ==
    IF ~pool.created THEN "AccountNotInitialized"
    ELSE IF ~(pool.status = "BondingCurve") THEN "NotBondingCurve"
    ELSE IF ~(pool.curve_sol_collected >= pool.graduation_threshold)
         THEN "NotReadyToGraduate"
    ELSE "Ok"

graduate_result == graduate_check(launch_pool)

Graduate(signer) ==
    /\ graduate_result = "Ok"
    /\ launch_pool' = [launch_pool EXCEPT !.status = "Graduated"]
    /\ UNCHANGED <<buyer_record, now, vault, minted, token_balance,
                   finalize_count, curve_ops,
                   market_registry, calc, transfer_ops>>

update_price_result(signer, new_price) ==
    IF ~launch_pool.created THEN "AccountNotInitialized"
    ELSE IF ~(launch_pool.creator = signer) THEN "UnauthorizedCreator"
    ELSE IF ~(new_price > 0) THEN "ZeroPrice"
    ELSE "Ok"

UpdatePrice(signer, new_price) ==
    /\ update_price_result(signer, new_price) = "Ok"
    /\ launch_pool' = [launch_pool EXCEPT !.price_lamports = new_price]
    /\ UNCHANGED <<buyer_record, now, vault, minted, token_balance,
                   finalize_count, curve_ops,
                   market_registry, calc, transfer_ops>>

(***************************************************************************)
(* The Clock sysvar: unix_timestamp never goes back.                       *)
(***************************************************************************)
Tick(d) ==
    /\ now + d <= MaxNow
    /\ now' = now + d
    /\ UNCHANGED <<launch_pool, buyer_record, vault, minted, token_balance,
                   finalize_count, curve_ops,
                   market_registry, calc, transfer_ops>>

(***************************************************************************)
(* lib.rs: register_market                                                 *)
(***************************************************************************)
\* a push that puts the new entry first
push_front(list, market_account) == <<market_account>> \o list

\* Vec::push
push(list, market_account) == Append(list, market_account)

\* register_market without the authority check
register_market_result_any_signer(signer) ==
    IF ~launch_pool.created THEN "AccountNotInitialized"
    ELSE IF ~(Len(market_registry.market_accounts) < MAX_MARKETS)
         THEN "InvalidMarket"
    ELSE "Ok"

register_market_result(signer) ==
    IF ~launch_pool.created THEN "AccountNotInitialized"
    ELSE IF ~(market_registry.authority = signer) THEN "UnauthorizedCreator"
    ELSE IF ~(Len(market_registry.market_accounts) < MAX_MARKETS)
         THEN "InvalidMarket"
    ELSE "Ok"

RegisterMarket(signer, market_account) ==
    /\ register_market_result(signer) = "Ok"
    /\ market_registry' =
         [market_registry EXCEPT
            !.market_accounts = push(@, market_account)]
    /\ UNCHANGED <<launch_pool, buyer_record, now, vault, minted,
                   token_balance, finalize_count, curve_ops, calc,
                   transfer_ops>>

(***************************************************************************)
(* hook.rs: the transfer hook.  Token-2022 runs handler on every transfer  *)
(* of the launch's token and the transfer goes through only if it returns  *)
(* Ok.  The sender's BuyerRecord account reaches the handler as raw data:  *)
(* its size in bytes, whether it deserializes as a BuyerRecord, and the     *)
(* entry_price it then holds.                                              *)
(***************************************************************************)
\* what the program has written at a buyer's record address
buyer_account_data(rec) ==
    IF rec.exists
    THEN [size |-> BUYER_RECORD_MAX_SIZE, decodes |-> TRUE,
          entry_price |-> rec.entry_price]
    ELSE [size |-> 0, decodes |-> FALSE, entry_price |-> 0]

\* account data that is not a BuyerRecord: shorter than the discriminator, or
\* of full size and failing try_deserialize
BadDataInputs ==
    {[size |-> 4, decodes |-> FALSE, entry_price |-> 0],
     [size |-> BUYER_RECORD_MAX_SIZE, decodes |-> FALSE, entry_price |-> 0]}

is_market_transfer(registry, destination) ==
    \E i \in 1..Len(registry.market_accounts) :
        registry.market_accounts[i] = destination

\* the handler enforcing the floor in every phase
handler_every_phase(pool, registry, destination, buyer_data) ==
    IF ~pool.created THEN "AccountNotInitialized"
    ELSE IF ~is_market_transfer(registry, destination) THEN "Ok"
    ELSE IF buyer_data.size = 0 THEN "Ok"
    ELSE IF buyer_data.size < 8 THEN "Ok"
    ELSE IF ~buyer_data.decodes THEN "NoBuyerRecord"
    ELSE IF pool.price_lamports < buyer_data.entry_price
         THEN "HookSellBelowEntry"
    ELSE "Ok"

handler(pool, registry, destination, buyer_data) ==
    IF ~pool.created THEN "AccountNotInitialized"
    ELSE IF pool.status # "BondingCurve" THEN "Ok"
    ELSE IF ~is_market_transfer(registry, destination) THEN "Ok"
    ELSE IF buyer_data.size = 0 THEN "Ok"
    ELSE IF buyer_data.size < 8 THEN "Ok"
    ELSE IF ~buyer_data.decodes THEN "NoBuyerRecord"
    ELSE IF pool.price_lamports < buyer_data.entry_price
         THEN "HookSellBelowEntry"
    ELSE "Ok"

\* the hook's answer to a transfer from owner's token account
hook_result(owner, destination) ==
    handler(launch_pool, market_registry, destination,
            buyer_account_data(buyer_record[owner]))

\* a Token-2022 transfer of the launch's token
transfer_result(owner, destination, amount) ==
    IF token_balance[owner] < amount THEN "TokenInsufficientFunds"
    ELSE hook_result(owner, destination)

Transfer(owner, destination, amount) ==
    /\ transfer_result(owner, destination, amount) = "Ok"
    /\ transfer_ops < MaxTransfers
    /\ token_balance' = [token_balance EXCEPT ![owner] = @ - amount,
                                              ![destination] = @ + amount]
    /\ transfer_ops' = transfer_ops + 1
    /\ UNCHANGED <<launch_pool, buyer_record, now, vault, minted,
                   finalize_count, curve_ops, market_registry, calc>>

(***************************************************************************)
(* The launch as the transfer hook meets it: one participant with a ledger *)
(* entry (alice), one wallet without (bob), the creator registering        *)
(* markets, and token transfers between all token accounts.                *)
(***************************************************************************)
Participant == "alice"

HookNext ==
    \/ \E n \in NameInputs, sy \in SymbolInputs, ts \in SupplyInputs,
          p \in CreatePriceInputs : CreateLaunch(Creator, n, sy, ts, p)
    \/ \E a \in PresaleInputs : BuyPresale(Participant, a)
    \/ \E s \in Signers : FinalizeLaunch(s, Participant)
    \/ \E s \in Signers : StartBondingCurve(s)
    \/ \E a \in CurveInputs :
          /\ curve_ops < MaxHookTrades
          /\ BuyCurve(Participant, a)
    \/ \E a \in SellInputs :
          /\ curve_ops < MaxHookTrades
          /\ SellCurve(Participant, a)
    \/ \E s \in Signers : Graduate(s)
    \/ \E s \in Signers, p \in PriceInputs : UpdatePrice(s, p)
    \/ \E s \in Signers, m \in Markets :
          /\ Len(market_registry.market_accounts) < MaxRegistered
          /\ RegisterMarket(s, m)
    \/ \E o \in Buyers, d \in TokenAccounts, a \in TransferInputs :
          Transfer(o, d, a)
    \/ \E d \in TickInputs : Tick(d)

SpecHook == Init /\ [][HookNext]_vars

(***************************************************************************)
(* The market registry from its creation to its capacity.                  *)
(***************************************************************************)
RegistryNext ==
    \/ \E n \in NameInputs, sy \in SymbolInputs, ts \in SupplyInputs,
          p \in CreatePriceInputs : CreateLaunch(Creator, n, sy, ts, p)
    \/ \E s \in Signers, m \in Markets : RegisterMarket(s, m)

SpecRegistry == Init /\ [][RegistryNext]_vars

(***************************************************************************)
(* state.rs: the curve functions on their own.  A computation takes curve  *)
(* parameters, funds and a token amount, and applies                       *)
(* bonding_curve_tokens_for_sol and bonding_curve_cost to them and to each *)
(* other's results.                                                        *)
(***************************************************************************)
\* the program's curve: slope DEFAULT_SLOPE, curve positions a buy of 10^7
\* tokens and a sell of 1000 tokens lead to
DefaultSlopeInputs ==
    [base_price : {1, 2, 3}, slope_scaled : {DEFAULT_SLOPE},
     tokens_sold : {0, 9999000, 10000000, 20000000},
     sol_amount : {0, 2000, 15000000, 25000000, 35000000},
     amount : {0, 1000, 10000000}]

\* the curve of the DEFAULT_SLOPE comment: base price 1000, 10M tokens sold
DoublingInputs ==
    [base_price : {1000}, slope_scaled : {DEFAULT_SLOPE},
     tokens_sold : {0, 10000000},
     sol_amount : {0, 10000},
     amount : {0, 10}]

\* flat pricing
ZeroSlopeInputs ==
    [base_price : {0, 1, 2, 3, 1000}, slope_scaled : {0},
     tokens_sold : {0, 10000000},
     sol_amount : {0, 7, 2000, 10000},
     amount : {0, 3, 10, 1000}]

\* a slope of 1.5 lamports per token
SteepSlopeInputs ==
    [base_price : {1, 2}, slope_scaled : {1500000000},
     tokens_sold : {0, 1, 2},
     sol_amount : {0, 7, 10},
     amount : {0, 1, 2, 3}]

CalcInputs ==
    DefaultSlopeInputs \cup DoublingInputs \cup ZeroSlopeInputs
        \cup SteepSlopeInputs

\* the funds and curve positions explored together with a slope
FundsWith(slope_scaled) ==
    {c.sol_amount : c \in {d \in CalcInputs : d.slope_scaled = slope_scaled}}

SoldWith(slope_scaled) ==
    {c.tokens_sold : c \in {d \in CalcInputs : d.slope_scaled = slope_scaled}}

CalcInit ==
    /\ NoLaunch
    /\ \E c \in CalcInputs :
         calc = [base_price |-> c.base_price, slope_scaled |-> c.slope_scaled,
                 tokens_sold |-> c.tokens_sold, sol_amount |-> c.sol_amount,
                 amount |-> c.amount, done |-> {}, tokens |-> 0,
                 tokens_cost |-> 0, cost |-> 0, cost_tokens |-> 0,
                 price |-> 0]

launch_vars == <<launch_pool, buyer_record, now, vault, minted, token_balance,
                 finalize_count, curve_ops, market_registry, transfer_ops>>

\* tokens := bonding_curve_tokens_for_sol(.., sol_amount)
TokensForSol ==
    /\ "tokens" \notin calc.done
    /\ calc' = [calc EXCEPT
                  !.tokens = bonding_curve_tokens_for_sol(
                                 calc.base_price, calc.slope_scaled,
                                 calc.tokens_sold, calc.sol_amount),
                  !.done = @ \cup {"tokens"}]
    /\ UNCHANGED launch_vars

\* tokens_cost := bonding_curve_cost(.., tokens), as buy_curve does next
CostOfTokens ==
    /\ "tokens" \in calc.done
    /\ calc.tokens # None
    /\ "tokens_cost" \notin calc.done
    /\ calc' = [calc EXCEPT
                  !.tokens_cost = bonding_curve_cost(
                                      calc.base_price, calc.slope_scaled,
                                      calc.tokens_sold, calc.tokens),
                  !.done = @ \cup {"tokens_cost"}]
    /\ UNCHANGED launch_vars

\* cost := bonding_curve_cost(.., amount)
CostOfAmount ==
    /\ "cost" \notin calc.done
    /\ calc' = [calc EXCEPT
                  !.cost = bonding_curve_cost(
                               calc.base_price, calc.slope_scaled,
                               calc.tokens_sold, calc.amount),
                  !.done = @ \cup {"cost"}]
    /\ UNCHANGED launch_vars

\* cost_tokens := bonding_curve_tokens_for_sol(.., cost)
TokensForCost ==
    /\ "cost" \in calc.done
    /\ "cost_tokens" \notin calc.done
    /\ calc' = [calc EXCEPT
                  !.cost_tokens = bonding_curve_tokens_for_sol(
                                      calc.base_price, calc.slope_scaled,
                                      calc.tokens_sold, calc.cost),
                  !.done = @ \cup {"cost_tokens"}]
    /\ UNCHANGED launch_vars

\* price := bonding_curve_price(..)
SpotPrice ==
    /\ "price" \notin calc.done
    /\ calc' = [calc EXCEPT
                  !.price = bonding_curve_price(
                                calc.base_price, calc.slope_scaled,
                                calc.tokens_sold),
                  !.done = @ \cup {"price"}]
    /\ UNCHANGED launch_vars

CalcNext ==
    \/ TokensForSol
    \/ CostOfTokens
    \/ CostOfAmount
    \/ TokensForCost
    \/ SpotPrice

SpecCurve == CalcInit /\ [][CalcNext]_vars

Next ==
    \/ \E n \in NameInputs, sy \in SymbolInputs, ts \in SupplyInputs,
          p \in CreatePriceInputs : CreateLaunch(Creator, n, sy, ts, p)
    \/ \E b \in Buyers, a \in PresaleInputs : BuyPresale(b, a)
    \/ \E s \in Signers, b \in Buyers : FinalizeLaunch(s, b)
    \/ \E s \in Signers : StartBondingCurve(s)
    \/ \E b \in Buyers, a \in CurveInputs : BuyCurve(b, a)
    \/ \E b \in Buyers, a \in SellInputs : SellCurve(b, a)
    \/ \E s \in Signers : Graduate(s)
    \/ \E s \in Signers, p \in PriceInputs : UpdatePrice(s, p)
    \/ \E d \in TickInputs : Tick(d)

Spec == Init /\ [][Next]_vars

(***************************************************************************)
(* The same program with a total_supply above the 10^7 tokens one curve    *)
(* purchase yields, so that a presale allocation weighs in a participant's *)
(* average.                                                                *)
(***************************************************************************)
LargeSupplyInputs == {0, 20000000}

LargeSupplyNext ==
    \/ \E n \in NameInputs, sy \in SymbolInputs, ts \in LargeSupplyInputs,
          p \in CreatePriceInputs : CreateLaunch(Creator, n, sy, ts, p)
    \/ \E b \in Buyers, a \in PresaleInputs : BuyPresale(b, a)
    \/ \E s \in Signers, b \in Buyers : FinalizeLaunch(s, b)
    \/ \E s \in Signers : StartBondingCurve(s)
    \/ \E b \in Buyers, a \in CurveInputs : BuyCurve(b, a)
    \/ \E b \in Buyers, a \in SellInputs : SellCurve(b, a)
    \/ \E s \in Signers : Graduate(s)
    \/ \E s \in Signers, p \in PriceInputs : UpdatePrice(s, p)
    \/ \E d \in TickInputs : Tick(d)

SpecLargeSupply == Init /\ [][LargeSupplyNext]_vars

(***************************************************************************)
(* Properties                                                              *)
(***************************************************************************)
RECURSIVE SumOver(_, _)
SumOver(f, S) ==
    IF S = {} THEN 0
    ELSE LET x == CHOOSE y \in S : TRUE IN f[x] + SumOver(f, S \ {x})

held(b) ==
    buyer_record[b].tokens_allocated + buyer_record[b].curve_tokens_bought

\* tokens b sells in this step (0 when b does not sell)
sold_in_step(b) == buyer_record'[b].tokens_sold - buyer_record[b].tokens_sold

\* C1: in phase BondingCurve, while the spot price is below a seller's
\* entry_price, sell_curve is rejected for every amount (SellBelowEntry for an
\* amount the seller holds) and no step sells any of the seller's tokens: every
\* successful sell_curve starts from spot price >= entry_price.
C1_SellFloor ==
    [][\A b \in Buyers :
         /\ ( /\ launch_pool.status = "BondingCurve"
              /\ buyer_record[b].exists
              /\ sell_current_price < buyer_record[b].entry_price )
            => /\ \A a \in SellInputs \cup {1, held(b) - buyer_record[b].tokens_sold} :
                    /\ sell_curve_result(b, a) # "Ok"
                    /\ (a > 0 /\ a <= held(b) - buyer_record[b].tokens_sold)
                         => sell_curve_result(b, a) = "SellBelowEntry"
               /\ sold_in_step(b) = 0
         /\ sold_in_step(b) # 0
            => sell_current_price >= buyer_record[b].entry_price
      ]_vars

\* a seller the floor blocks although they hold tokens, after a sell went through
C1_Witness ==
    /\ launch_pool.status = "BondingCurve"
    /\ \E b \in Buyers :
         /\ buyer_record[b].exists
         /\ held(b) - buyer_record[b].tokens_sold >= 1000
         /\ token_balance[b] >= 1000
         /\ sell_current_price < buyer_record[b].entry_price
    /\ \E b \in Buyers : buyer_record[b].tokens_sold > 0

C3_FinalizeOnce ==
    \A b \in Buyers :
        /\ ( /\ finalize_count[b] >= 1
             /\ launch_pool.status = "Presale"
             /\ now >= launch_pool.end_time )
           => finalize_launch_result(launch_pool.creator, b) = "AlreadyFinalized"
        /\ finalize_count[b] <= 1

\* C4: the tokens allocated and bought over all ledger entries never exceed
\* total_supply.
C4_SupplyCap ==
    launch_pool.created
        => SumOver([b \in Buyers |-> held(b)], Buyers) <= launch_pool.total_supply

\* C5: tokens_sold_curve never exceeds total_supply.
C5_CurveSoldWithinSupply ==
    launch_pool.created
        => launch_pool.tokens_sold_curve <= launch_pool.total_supply

\* C6: the status only steps Presale -> BondingCurve -> Graduated (or
\* Presale -> Closed); it never returns to a phase it left and never leaves
\* Graduated.
C6_PhaseMonotonic ==
    [][\/ launch_pool'.status = launch_pool.status
       \/ <<launch_pool.status, launch_pool'.status>> \in
             {<<"Presale", "BondingCurve">>, <<"BondingCurve", "Graduated">>,
              <<"Presale", "Closed">>}
      ]_vars

C6_Witness == launch_pool.status = "Graduated"

\* C7: tokens_sold <= tokens_allocated + curve_tokens_bought for every ledger
\* entry, and in phase BondingCurve a sell_curve of more than the entry has
\* left is rejected with InsufficientBalance.
C7_SoldWithinHeld ==
    \A b \in Buyers :
        /\ buyer_record[b].tokens_sold <= held(b)
        /\ \A a \in SellInputs \cup {held(b) - buyer_record[b].tokens_sold + 1} :
             ( /\ launch_pool.status = "BondingCurve"
               /\ buyer_record[b].exists
               /\ a > held(b) - buyer_record[b].tokens_sold )
             => sell_curve_result(b, a) = "InsufficientBalance"

\* an entry that has sold part of what it holds, facing an amount above the rest
C7_Witness ==
    /\ launch_pool.status = "BondingCurve"
    /\ \E b \in Buyers :
         /\ buyer_record[b].tokens_sold > 0
         /\ buyer_record[b].tokens_sold < held(b)
         /\ \E a \in SellInputs :
              a > held(b) - buyer_record[b].tokens_sold

\* C8: total_sol_collected equals the sum of sol_deposited over the ledger
\* entries, also after repeated deposits of one participant.
C8_PresaleTotal ==
    launch_pool.total_sol_collected =
        SumOver([b \in Buyers |-> buyer_record[b].sol_deposited], Buyers)

\* one participant deposited twice (3 + 3) and the other once
C8_Witness ==
    \E b, c \in Buyers :
        /\ b # c
        /\ buyer_record[b].sol_deposited = 6
        /\ buyer_record[c].sol_deposited = 3

\* C9: buy_presale takes a deposit only in phase Presale with
\* start_time <= now < end_time and a positive amount; a non-positive amount is
\* rejected, now < start_time fails PresaleNotStarted, now >= end_time fails
\* PresaleEnded, and outside these conditions no deposit is recorded.
C9_PresaleWindow ==
    [][/\ launch_pool.created =>
            \A a \in PresaleInputs :
               /\ buy_presale_result(a) = "Ok"
                    => /\ a > 0
                       /\ launch_pool.status = "Presale"
                       /\ launch_pool.start_time <= now
                       /\ now < launch_pool.end_time
               /\ a <= 0 => buy_presale_result(a) = "ZeroDeposit"
               /\ (a > 0 /\ now < launch_pool.start_time)
                    => buy_presale_result(a) = "PresaleNotStarted"
               /\ (a > 0 /\ now >= launch_pool.start_time
                         /\ now >= launch_pool.end_time)
                    => buy_presale_result(a) = "PresaleEnded"
       /\ ( \/ launch_pool'.total_sol_collected # launch_pool.total_sol_collected
            \/ \E b \in Buyers : buyer_record'[b].sol_deposited
                                    # buyer_record[b].sol_deposited )
          => /\ launch_pool.status = "Presale"
             /\ launch_pool.start_time <= now
             /\ now < launch_pool.end_time
             /\ launch_pool'.total_sol_collected > launch_pool.total_sol_collected
      ]_vars

\* the instant now = end_time of a presale that took deposits
C9_Witness ==
    /\ launch_pool.created
    /\ launch_pool.status = "Presale"
    /\ now = launch_pool.end_time
    /\ launch_pool.total_sol_collected > 0

\* C10: a successful finalize sets tokens_allocated to
\* floor(sol_deposited * total_supply / total_sol_collected) and mints exactly
\* that; the allocations sum to at most total_supply; deposits 3 and 7 against
\* a supply of 1000 give 300 and 700.
C10_ProportionalAllocation ==
    [][/\ \A b \in Buyers :
            finalize_count'[b] # finalize_count[b]
               => LET t == buyer_record'[b].tokens_allocated
                      dep == buyer_record[b].sol_deposited
                      total == launch_pool.total_sol_collected
                  IN  /\ t * total <= dep * launch_pool.total_supply
                      /\ dep * launch_pool.total_supply < (t + 1) * total
                      /\ minted' = minted + t
                      /\ token_balance'[b] = token_balance[b] + t
                      /\ (dep = 3 /\ total = 10 /\ launch_pool.total_supply = 1000)
                            => t = 300
                      /\ (dep = 7 /\ total = 10 /\ launch_pool.total_supply = 1000)
                            => t = 700
       /\ SumOver([b \in Buyers |-> buyer_record'[b].tokens_allocated], Buyers)
             <= launch_pool'.total_supply
      ]_vars

\* deposits 3 and 7 finalized against a supply of 1000
C10_Witness ==
    \E b, c \in Buyers :
        /\ launch_pool.total_supply = 1000
        /\ buyer_record[b].sol_deposited = 3
        /\ buyer_record[c].sol_deposited = 7
        /\ finalize_count[b] >= 1
        /\ finalize_count[c] >= 1
        /\ buyer_record[b].tokens_allocated = 300
        /\ buyer_record[c].tokens_allocated = 700

\* C11: whenever tokens_for_sol and cost both return a value and
\* base_price > 0, the cost of the tokens computed for some funds is at most
\* those funds (the inverse is a floor).
C11_InverseIsFloor ==
    ( /\ "tokens_cost" \in calc.done
      /\ calc.base_price > 0 )
    => calc.tokens_cost <= calc.sol_amount

\* C12: the tokens computed for the cost of an amount differ from that amount
\* by at most 1.
C12_RoundTrip ==
    ( /\ "cost_tokens" \in calc.done
      /\ calc.cost_tokens # None )
    => /\ calc.cost_tokens - calc.amount <= 1
       /\ calc.amount - calc.cost_tokens <= 1

\* C13: for fixed base_price, slope and sold, tokens_for_sol does not decrease
\* when the funds grow; for fixed base_price, slope and funds, it does not
\* increase when sold grows.
C13_InverseMonotone ==
    ( /\ "tokens" \in calc.done
      /\ calc.tokens # None )
    => /\ \A f \in FundsWith(calc.slope_scaled) :
            f >= calc.sol_amount
               => bonding_curve_tokens_for_sol(
                      calc.base_price, calc.slope_scaled, calc.tokens_sold, f)
                  >= calc.tokens
       /\ \A sold \in SoldWith(calc.slope_scaled) :
            sold >= calc.tokens_sold
               => bonding_curve_tokens_for_sol(
                      calc.base_price, calc.slope_scaled, sold, calc.sol_amount)
                  <= calc.tokens

\* funds that buy tokens at the start of the curve and fewer further up, while
\* more funds buy more
C13_Witness ==
    /\ "tokens" \in calc.done
    /\ calc.tokens # None
    /\ calc.tokens > 0
    /\ \E sold \in SoldWith(calc.slope_scaled) :
         /\ sold > calc.tokens_sold
         /\ bonding_curve_tokens_for_sol(
                calc.base_price, calc.slope_scaled, sold, calc.sol_amount)
            < calc.tokens
    /\ \E f \in FundsWith(calc.slope_scaled) :
         /\ f > calc.sol_amount
         /\ bonding_curve_tokens_for_sol(
                calc.base_price, calc.slope_scaled, calc.tokens_sold, f)
            > calc.tokens

\* the launch pool with curve_sol_collected at c
pool_with_collected(c) == [launch_pool EXCEPT !.curve_sol_collected = c]

\* C14: graduate succeeds exactly when the status is BondingCurve and
\* curve_sol_collected >= graduation_threshold: at the threshold it succeeds,
\* one lamport below it fails NotReadyToGraduate, should_graduate is true
\* exactly where graduate succeeds, and a successful graduate (whoever calls)
\* sets the status to Graduated and nothing else.
C14_GraduationGuard ==
    /\ [](launch_pool.created =>
            \A c \in {launch_pool.curve_sol_collected,
                       launch_pool.graduation_threshold - 1,
                       launch_pool.graduation_threshold,
                       launch_pool.graduation_threshold + 1} :
               LET pool == pool_with_collected(c)
               IN  /\ graduate_check(pool) = "Ok"
                        <=> ( /\ pool.status = "BondingCurve"
                              /\ c >= pool.graduation_threshold )
                   /\ ( /\ pool.status = "BondingCurve"
                        /\ c < pool.graduation_threshold )
                        => graduate_check(pool) = "NotReadyToGraduate"
                   /\ should_graduate(pool) <=> graduate_check(pool) = "Ok")
    /\ [][launch_pool'.status # launch_pool.status
            => ( launch_pool'.status = "Graduated"
                 <=> ( /\ graduate_result = "Ok"
                       /\ launch_pool' = [launch_pool EXCEPT
                                            !.status = "Graduated"]
                       /\ UNCHANGED <<buyer_record, vault, minted,
                                      token_balance, market_registry>> ) )
        ]_vars

\* graduated with curve_sol_collected exactly at the threshold
C14_Witness ==
    /\ launch_pool.status = "Graduated"
    /\ launch_pool.curve_sol_collected = launch_pool.graduation_threshold

\* the three conditions under which the hook may reject a transfer
floor_applies(owner, destination) ==
    /\ launch_pool.status = "BondingCurve"
    /\ is_market_transfer(market_registry, destination)
    /\ buyer_record[owner].exists

\* C15: the hook rejects a transfer only if the status is BondingCurve, the
\* destination is in the MarketRegistry and the sender has a ledger entry; in
\* every other case (status Presale, Graduated or Closed, a destination that
\* is no market, a sender without entry) it allows the transfer whatever the
\* price, and no tokens move on a transfer it rejects.
C15_UnconditionalAllow ==
    /\ [](launch_pool.created =>
            \A o \in Buyers, d \in TokenAccounts :
               /\ hook_result(o, d) # "Ok" => floor_applies(o, d)
               /\ ~floor_applies(o, d) =>
                    \A p \in PriceInputs :
                       handler([launch_pool EXCEPT !.price_lamports = p],
                               market_registry, d,
                               buyer_account_data(buyer_record[o])) = "Ok"
               /\ \A st \in {"Presale", "Graduated", "Closed"}, p \in PriceInputs :
                    handler([launch_pool EXCEPT !.status = st,
                                                !.price_lamports = p],
                            market_registry, d,
                            buyer_account_data(buyer_record[o])) = "Ok")
    /\ [][\A o \in Buyers, d \in TokenAccounts :
            ( /\ o # d
              /\ token_balance'[o] < token_balance[o]
              /\ token_balance'[d] > token_balance[d] )
            => hook_result(o, d) = "Ok"
        ]_vars

\* in phase BondingCurve, with the participant's transfers to a registered
\* market blocked, the wallet without ledger entry has received tokens and
\* passed them on to that market
C15_Witness ==
    /\ launch_pool.status = "BondingCurve"
    /\ ~buyer_record["bob"].exists
    /\ transfer_ops = 2
    /\ token_balance[Participant] = 0
    /\ \E m \in Markets :
         /\ token_balance[m] > 0
         /\ hook_result(Participant, m) = "HookSellBelowEntry"
         /\ hook_result("bob", m) = "Ok"

\* C16: where the floor applies (status BondingCurve, registered market,
\* sender with ledger entry) the hook allows the transfer iff the curve's spot
\* price is at least the sender's entry_price, the decision of sell_curve's
\* floor check in the same state.
C16_SameGuard ==
    \A o \in Buyers, d \in TokenAccounts :
        floor_applies(o, d)
           => ( hook_result(o, d) = "Ok"
                <=> sell_current_price >= buyer_record[o].entry_price )

\* C17: account data that cannot be read as a BuyerRecord makes the hook allow
\* the transfer, in every phase and for every destination.
C17_FailOpen ==
    launch_pool.created =>
        \A d \in TokenAccounts, data \in BadDataInputs :
            handler(launch_pool, market_registry, d, data) = "Ok"

\* C18: the registry never holds more than MAX_MARKETS entries; at
\* MAX_MARKETS entries register_market fails InvalidMarket and the list stays
\* as it is; every other change of the list appends one entry at its end.
C18_RegistryAppendOnly ==
    /\ [](/\ Len(market_registry.market_accounts) <= MAX_MARKETS
          /\ ( /\ launch_pool.created
               /\ Len(market_registry.market_accounts) = MAX_MARKETS )
             => /\ register_market_result(market_registry.authority)
                     = "InvalidMarket"
                /\ \A m \in Markets :
                     ~ENABLED RegisterMarket(market_registry.authority, m))
    /\ [][market_registry'.market_accounts # market_registry.market_accounts
            => LET old == market_registry.market_accounts
                   new == market_registry'.market_accounts
               IN  /\ Len(old) < MAX_MARKETS
                   /\ Len(new) = Len(old) + 1
                   /\ SubSeq(new, 1, Len(old)) = old
                   /\ new[Len(new)] \in Markets
        ]_vars

\* a full registry holding both markets, a repeated one included
C18_Witness ==
    /\ Len(market_registry.market_accounts) = MAX_MARKETS
    /\ market_registry.market_accounts[1] = "amm"
    /\ market_registry.market_accounts[2] = "dex"
    /\ market_registry.market_accounts[MAX_MARKETS] = "amm"

\* C19: start_bonding_curve and update_price by anyone but the launch's
\* creator, and register_market by anyone but the registry's authority, fail
\* UnauthorizedCreator and cannot take a step: status, price and registry
\* stay as they are.
C19_Authorization ==
    launch_pool.created =>
        \A s \in Signers :
            /\ s # launch_pool.creator
                 => /\ start_bonding_curve_result(s) = "UnauthorizedCreator"
                    /\ ~ENABLED StartBondingCurve(s)
                    /\ \A p \in PriceInputs :
                         /\ update_price_result(s, p) = "UnauthorizedCreator"
                         /\ ~ENABLED UpdatePrice(s, p)
            /\ s # market_registry.authority
                 => /\ register_market_result(s) = "UnauthorizedCreator"
                    /\ \A m \in Markets : ~ENABLED RegisterMarket(s, m)

\* the creator has started the curve, changed the price and registered a
\* market, and could change the price again
C19_Witness ==
    /\ launch_pool.status = "BondingCurve"
    /\ launch_pool.price_lamports = 1
    /\ Len(market_registry.market_accounts) > 0
    /\ update_price_result(launch_pool.creator, 2) = "Ok"
    /\ \E s \in Signers : s # launch_pool.creator

\* C20: the status leaves Presale only by a successful start_bonding_curve at
\* now >= end_time, into BondingCurve; no buy_curve or sell_curve succeeds
\* before end_time; start_bonding_curve before end_time fails
\* PresaleStillActive and the status stays Presale.
C20_NoTradingInPresale ==
    /\ [](( /\ launch_pool.created
            /\ launch_pool.status = "Presale"
            /\ now < launch_pool.end_time )
          => /\ start_bonding_curve_result(launch_pool.creator)
                  = "PresaleStillActive"
             /\ \A s \in Signers : ~ENABLED StartBondingCurve(s)
             /\ \A a \in CurveInputs : buy_curve_result(a) # "Ok"
             /\ \A b \in Buyers, a \in SellInputs :
                  sell_curve_result(b, a) # "Ok")
    /\ [][/\ ( /\ launch_pool.status = "Presale"
                /\ launch_pool'.status # "Presale" )
             => /\ now >= launch_pool.end_time
                /\ launch_pool'.status = "BondingCurve"
                /\ start_bonding_curve_result(launch_pool.creator) = "Ok"
          /\ ( \/ launch_pool'.tokens_sold_curve # launch_pool.tokens_sold_curve
               \/ launch_pool'.curve_sol_collected # launch_pool.curve_sol_collected
               \/ curve_ops' # curve_ops )
             => /\ now >= launch_pool.end_time
                /\ launch_pool.status = "BondingCurve"
        ]_vars

\* a curve trade went through at the very end of the presale window
C20_Witness ==
    /\ launch_pool.status = "BondingCurve"
    /\ curve_ops > 0
    /\ now = launch_pool.end_time

\* C21: finalize_launch is rejected, with no mint and no change of the ledger,
\* while now < end_time (PresaleStillActive) and once the status is not
\* Presale (AlreadyFinalized after the window), in particular at any time
\* after start_bonding_curve; an entry with sol_deposited = 0 is rejected, with
\* ZeroDeposit where the window is closed and the status is Presale.
C21_FinalizeConfined ==
    /\ [](launch_pool.created =>
            \A b \in Buyers :
               LET rec == buyer_record[b]
                   creator == launch_pool.creator
               IN  /\ (rec.exists /\ now < launch_pool.end_time)
                        => finalize_launch_result(creator, b) = "PresaleStillActive"
                   /\ ( /\ rec.exists
                        /\ now >= launch_pool.end_time
                        /\ launch_pool.status # "Presale" )
                        => finalize_launch_result(creator, b) = "AlreadyFinalized"
                   /\ ( \/ now < launch_pool.end_time
                        \/ launch_pool.status # "Presale"
                        \/ rec.sol_deposited = 0 )
                        => \A s \in Signers : ~ENABLED FinalizeLaunch(s, b)
                   /\ (rec.exists /\ rec.sol_deposited = 0)
                        => finalize_launch_result(creator, b) # "Ok"
                   /\ finalize_launch_check(
                          [launch_pool EXCEPT !.status = "Presale"],
                          [rec EXCEPT !.exists = TRUE, !.sol_deposited = 0],
                          creator, launch_pool.end_time) = "ZeroDeposit")
    /\ [][\A b \in Buyers :
            ( \/ finalize_count'[b] # finalize_count[b]
              \/ buyer_record'[b].tokens_allocated
                    # buyer_record[b].tokens_allocated )
            => /\ now >= launch_pool.end_time
               /\ launch_pool.status = "Presale"
               /\ buyer_record[b].sol_deposited > 0
        ]_vars

\* after start_bonding_curve: one participant was finalized in the closed
\* presale, the other deposited, was not, and is now rejected; the finalized
\* one trades on the curve
C21_Witness ==
    /\ launch_pool.status = "BondingCurve"
    /\ \E b, c \in Buyers :
         /\ finalize_count[b] = 1
         /\ buyer_record[b].curve_tokens_bought > 0
         /\ buyer_record[c].sol_deposited > 0
         /\ finalize_count[c] = 0
         /\ finalize_launch_result(launch_pool.creator, c) = "AlreadyFinalized"

\* the fields of the buyer records summed over the participants
total_of(records, field) ==
    SumOver([b \in Buyers |-> records[b][field]], Buyers)

C23_ClosedFromPresale ==
    /\ (launch_pool.created /\ launch_pool.status = "Presale")
         => ENABLED (Next /\ launch_pool'.status = "Closed")
    /\ launch_pool.status = "Closed"
         => /\ \A a \in PresaleInputs : buy_presale_result(a) # "Ok"
            /\ \A s \in Signers, b \in Buyers :
                  finalize_launch_result(s, b) # "Ok"
            /\ \A a \in CurveInputs : buy_curve_result(a) # "Ok"
            /\ \A b \in Buyers, a \in SellInputs :
                  sell_curve_result(b, a) # "Ok"
            /\ graduate_result # "Ok"

\* C24: with base_price = 1000 and slope_scaled = 100 (the default slope),
\* after tokens_sold = 10_000_000 bonding_curve_price returns 2000: the price
\* has doubled after 10M tokens sold.
C24_PriceDoubles ==
    ( /\ "price" \in calc.done
      /\ calc.base_price = 1000
      /\ calc.slope_scaled = DEFAULT_SLOPE
      /\ calc.tokens_sold = 10000000 )
    => calc.price = 2000

\* C25: with slope 0 and base_price > 0, at every curve position,
\* bonding_curve_cost is base_price * amount and
\* bonding_curve_tokens_for_sol is floor(funds / base_price);
\* cost(1000, 0, 0, 10) = 10000 and tokens_for_funds(1000, 0, 0, 10000) = 10.
C25_FlatCurve ==
    (calc.slope_scaled = 0 /\ calc.base_price > 0)
    => /\ "cost" \in calc.done
          => /\ calc.cost = calc.base_price * calc.amount
             /\ ( /\ calc.base_price = 1000 /\ calc.tokens_sold = 0
                  /\ calc.amount = 10 ) => calc.cost = 10000
       /\ "tokens" \in calc.done
          => /\ calc.tokens >= 0
             /\ calc.tokens * calc.base_price <= calc.sol_amount
             /\ calc.sol_amount < (calc.tokens + 1) * calc.base_price
             /\ ( /\ calc.base_price = 1000 /\ calc.tokens_sold = 0
                  /\ calc.sol_amount = 10000 ) => calc.tokens = 10

\* both examples computed, at the start of the curve and, with funds that
\* are no multiple of the price, 10M tokens into it
C25_Witness ==
    /\ calc.slope_scaled = 0
    /\ {"cost", "tokens"} \subseteq calc.done
    /\ \/ /\ calc.base_price = 1000 /\ calc.tokens_sold = 0
          /\ calc.amount = 10 /\ calc.cost = 10000
          /\ calc.sol_amount = 10000 /\ calc.tokens = 10
       \/ /\ calc.base_price = 3 /\ calc.tokens_sold = 10000000
          /\ calc.sol_amount = 2000 /\ calc.tokens = 666
          /\ calc.amount = 1000 /\ calc.cost = 3000

\* C26: in phase BondingCurve, buy_curve with funds of at least the cost of
\* one token at the current point of the curve succeeds and buys at least one
\* token; it is rejected for insufficient funds (ZeroDeposit for zero tokens,
\* InsufficientBalance) only when the funds are below the cost of one token.
C26_OneTokenIsEnough ==
    launch_pool.status = "BondingCurve"
    => \A a \in CurveInputs :
          /\ (a > 0 /\ a >= buy_curve_cost(1))
                => /\ buy_curve_result(a) = "Ok"
                   /\ buy_curve_tokens(a) >= 1
          /\ buy_curve_result(a) \in {"ZeroDeposit", "InsufficientBalance"}
                => a < buy_curve_cost(1)

\* C27: a created launch always has total_supply > 0 and price_lamports > 0:
\* create_launch rejects a name longer than 32 bytes (NameTooLong), a symbol
\* longer than 10 bytes (SymbolTooLong), total_supply = 0 (ZeroSupply) and
\* price_lamports = 0 (ZeroPrice) and creates no launch, and update_price(0)
\* is rejected with ZeroPrice and leaves the price as it is.
C27_PositiveSupplyAndPrice ==
    /\ launch_pool.created
         => /\ launch_pool.total_supply > 0
            /\ launch_pool.price_lamports > 0
            /\ Len(launch_pool.token_name) <= 32
            /\ Len(launch_pool.token_symbol) <= 10
            /\ update_price_result(launch_pool.creator, 0) = "ZeroPrice"
            /\ \A s \in Signers : ~ENABLED UpdatePrice(s, 0)
    /\ ~launch_pool.created
         => \A n \in NameInputs, sy \in SymbolInputs, ts \in SupplyInputs,
               p \in CreatePriceInputs :
               LET result == create_launch_result(n, sy, ts, p)
               IN  /\ Len(n) > 32 => result = "NameTooLong"
                   /\ (Len(n) <= 32 /\ Len(sy) > 10)
                        => result = "SymbolTooLong"
                   /\ (Len(n) <= 32 /\ Len(sy) <= 10 /\ ts = 0)
                        => result = "ZeroSupply"
                   /\ (Len(n) <= 32 /\ Len(sy) <= 10 /\ ts > 0 /\ p = 0)
                        => result = "ZeroPrice"
                   /\ (Len(n) > 32 \/ Len(sy) > 10 \/ ts = 0 \/ p = 0)
                        => ~ENABLED CreateLaunch(Creator, n, sy, ts, p)

\* a launch whose price the creator has lowered; update_price(0) is rejected
C27_Witness ==
    /\ launch_pool.created
    /\ Len(launch_pool.token_name) = 32
    /\ Len(launch_pool.token_symbol) = 10
    /\ launch_pool.price_lamports = 1
    /\ update_price_result(launch_pool.creator, 0) = "ZeroPrice"

\* C28: a successful buy_curve with tokens = tokens_for_funds(funds) and
\* cost = cost(tokens) at the current curve position adds tokens to
\* tokens_sold_curve and to the caller's curve_tokens_bought, adds cost to
\* curve_sol_collected and to the caller's curve_sol_spent, mints exactly
\* tokens, and leaves total_sol_collected, the status and every other
\* participant's entry as they are.
C28_BuyCurveFrame ==
    [][\A b \in Buyers :
         LET rec == buyer_record[b]
             bought == buyer_record'[b].curve_tokens_bought
                         - rec.curve_tokens_bought
         IN  bought # 0
             => \E a \in CurveInputs :
                  LET tokens == bonding_curve_tokens_for_sol(
                                    launch_pool.price_lamports,
                                    launch_pool.slope_scaled,
                                    launch_pool.tokens_sold_curve, a)
                      cost == bonding_curve_cost(
                                  launch_pool.price_lamports,
                                  launch_pool.slope_scaled,
                                  launch_pool.tokens_sold_curve, tokens)
                  IN  /\ tokens > 0
                      /\ bought = tokens
                      /\ launch_pool'.tokens_sold_curve
                           = launch_pool.tokens_sold_curve + tokens
                      /\ launch_pool'.curve_sol_collected
                           = launch_pool.curve_sol_collected + cost
                      /\ buyer_record'[b].curve_sol_spent
                           = rec.curve_sol_spent + cost
                      /\ minted' = minted + tokens
                      /\ token_balance'[b] = token_balance[b] + tokens
                      /\ launch_pool'.total_sol_collected
                           = launch_pool.total_sol_collected
                      /\ launch_pool'.status = launch_pool.status
                      /\ buyer_record'[b].sol_deposited = rec.sol_deposited
                      /\ buyer_record'[b].tokens_sold = rec.tokens_sold
                      /\ \A c \in Buyers \ {b} :
                            buyer_record'[c] = buyer_record[c]
      ]_vars

\* a participant bought on the curve after a presale in which another took
\* part, whose entry is that of the presale
C28_Witness ==
    /\ launch_pool.status = "BondingCurve"
    /\ launch_pool.tokens_sold_curve > 0
    /\ launch_pool.total_sol_collected > 0
    /\ \E b \in Buyers, c \in Buyers :
         /\ b # c
         /\ buyer_record[b].curve_tokens_bought > 0
         /\ buyer_record[b].curve_tokens_bought = launch_pool.tokens_sold_curve
         /\ buyer_record[b].curve_sol_spent = launch_pool.curve_sol_collected
         /\ buyer_record[c].sol_deposited > 0
         /\ buyer_record[c].curve_tokens_bought = 0

\* the lamports a step moves from the participants to the vault
debited_in_step == vault' - vault

\* C29 as stated: when buy_curve(funds) succeeds with funds > cost, the buyer
\* is debited the full funds offered, and funds - cost is not returned.
C29_OverpaymentKept ==
    [][\A b \in Buyers :
         buyer_record'[b].curve_tokens_bought # buyer_record[b].curve_tokens_bought
         => \A a \in CurveInputs :
              (BuyCurve(b, a) /\ a > buy_curve_cost(buy_curve_tokens(a)))
              => debited_in_step = a
      ]_vars

\* C29, amended: a successful buy_curve(funds) debits the buyer exactly
\* cost = cost(tokens_for_funds(funds)), which is what the vault, the pool
\* and the buyer's entry record; with funds > cost the excess funds - cost is
\* never taken from the buyer.
C29_OnlyCostIsTaken ==
    [][\A b \in Buyers :
         buyer_record'[b].curve_tokens_bought # buyer_record[b].curve_tokens_bought
         => \A a \in CurveInputs :
              BuyCurve(b, a)
              => LET cost == bonding_curve_cost(
                                 launch_pool.price_lamports,
                                 launch_pool.slope_scaled,
                                 launch_pool.tokens_sold_curve,
                                 buy_curve_tokens(a))
                 IN  /\ cost <= a
                     /\ debited_in_step = cost
                     /\ buyer_record'[b].curve_sol_spent
                          = buyer_record[b].curve_sol_spent + cost
                     /\ launch_pool'.curve_sol_collected
                          = launch_pool.curve_sol_collected + cost
      ]_vars

\* the first trade on the curve was a buy_curve with funds above its cost:
\* the vault holds the presale deposits and the cost, not the funds
C29_Witness ==
    /\ curve_ops = 1
    /\ \E b \in Buyers, a \in CurveInputs :
         LET rec == buyer_record[b]
         IN  /\ rec.curve_tokens_bought > 0
             /\ rec.curve_tokens_bought = launch_pool.tokens_sold_curve
             /\ bonding_curve_tokens_for_sol(launch_pool.price_lamports,
                                             launch_pool.slope_scaled, 0, a)
                  = rec.curve_tokens_bought
             /\ bonding_curve_cost(launch_pool.price_lamports,
                                   launch_pool.slope_scaled, 0,
                                   rec.curve_tokens_bought)
                  = rec.curve_sol_spent
             /\ a > rec.curve_sol_spent
             /\ vault = launch_pool.total_sol_collected + rec.curve_sol_spent

\* C30: every successful sell_curve(amount) decreases tokens_sold_curve by
\* exactly amount and curve_sol_collected by exactly
\* sol_return_raw = cost(base, slope, tokens_sold_curve - amount, amount), and
\* increases the seller's tokens_sold by exactly amount, for presale-allocated
\* tokens as for curve-bought tokens.
C30_SellAccounting ==
    [][\A b \in Buyers :
         sold_in_step(b) # 0
         => \E amount \in SellInputs :
              /\ SellCurve(b, amount)
              /\ sold_in_step(b) = amount
              /\ launch_pool'.tokens_sold_curve
                   = launch_pool.tokens_sold_curve - amount
              /\ launch_pool'.curve_sol_collected
                   = launch_pool.curve_sol_collected
                       - bonding_curve_cost(
                             launch_pool.price_lamports,
                             launch_pool.slope_scaled,
                             launch_pool.tokens_sold_curve - amount, amount)
      ]_vars

\* C31: when a buy_curve that yields t tokens at cost c is followed at once
\* by a successful sell_curve(t) of the same participant, sol_return_raw is
\* c, the seller receives c - floor(c * 100 / 10000), and tokens_sold_curve
\* and curve_sol_collected are back at their values before the buy.  Stated
\* on the buy step, for the sell_curve(t) that succeeds in the state it leads
\* to, and on every sell step, which applies exactly these values.
C31_BuySellSymmetry ==
    /\ [][\A b \in Buyers, t \in SellInputs :
            LET c == launch_pool'.curve_sol_collected
                       - launch_pool.curve_sol_collected
                sold_after == launch_pool.tokens_sold_curve + t
                raw == bonding_curve_cost(
                           launch_pool.price_lamports,
                           launch_pool.slope_scaled,
                           saturating_sub(sold_after, t), t)
                fee == MulDiv(raw, PLATFORM_FEE_BPS, BPS_DENOMINATOR)
                sell_succeeds ==
                    /\ launch_pool'.status = "BondingCurve"
                    /\ t <= sell_available(buyer_record'[b])
                    /\ bonding_curve_price(launch_pool.price_lamports,
                                           launch_pool.slope_scaled,
                                           sold_after)
                         >= buyer_record'[b].entry_price
                    /\ vault' >= saturating_sub(raw, fee)
                    /\ token_balance'[b] >= t
            IN  ( /\ t > 0
                  /\ buyer_record'[b].curve_tokens_bought
                       = buyer_record[b].curve_tokens_bought + t )
                => /\ launch_pool'.tokens_sold_curve = sold_after
                   /\ launch_pool'.price_lamports = launch_pool.price_lamports
                   /\ launch_pool'.slope_scaled = launch_pool.slope_scaled
                   /\ sell_succeeds
                      => /\ raw = c
                         /\ saturating_sub(raw, fee)
                              = c - MulDiv(c, PLATFORM_FEE_BPS,
                                           BPS_DENOMINATOR)
                         /\ saturating_sub(sold_after, t)
                              = launch_pool.tokens_sold_curve
                         /\ saturating_sub(launch_pool'.curve_sol_collected,
                                           raw)
                              = launch_pool.curve_sol_collected
        ]_vars
    /\ [][\A b \in Buyers :
            LET a == sold_in_step(b)
                raw == bonding_curve_cost(
                           launch_pool.price_lamports,
                           launch_pool.slope_scaled,
                           saturating_sub(launch_pool.tokens_sold_curve, a), a)
                fee == MulDiv(raw, PLATFORM_FEE_BPS, BPS_DENOMINATOR)
            IN  a # 0
                => /\ vault' = vault - (raw - fee)
                   /\ launch_pool'.tokens_sold_curve
                        = saturating_sub(launch_pool.tokens_sold_curve, a)
                   /\ launch_pool'.curve_sol_collected
                        = saturating_sub(launch_pool.curve_sol_collected, raw)
        ]_vars

\* a participant without presale tokens bought on the curve and sold the
\* same tokens back: the curve is at its start again and the vault has kept
\* the presale deposits and the fee on the cost
C31_Witness ==
    /\ curve_ops = 2
    /\ launch_pool.tokens_sold_curve = 0
    /\ launch_pool.curve_sol_collected = 0
    /\ \E b \in Buyers :
         LET rec == buyer_record[b]
         IN  /\ rec.tokens_allocated = 0
             /\ rec.curve_tokens_bought > 0
             /\ rec.tokens_sold = rec.curve_tokens_bought
             /\ vault = launch_pool.total_sol_collected
                          + MulDiv(rec.curve_sol_spent, PLATFORM_FEE_BPS,
                                   BPS_DENOMINATOR)

\* C32: after every successful buy_curve the caller's stored entry_price is
\* floor((sol_deposited + curve_sol_spent)
\*         / (tokens_allocated + curve_tokens_bought)) of the updated entry,
\* the value average_entry_price() returns for it; average_entry_price()
\* returns 0 for an entry without tokens.
C32_WeightedEntryPrice ==
    /\ [](\A b \in Buyers :
            LET rec == buyer_record[b]
            IN  rec.tokens_allocated + rec.curve_tokens_bought = 0
                => average_entry_price(rec) = 0)
    /\ [][\A b \in Buyers :
            LET rec == buyer_record'[b]
                total_sol == rec.sol_deposited + rec.curve_sol_spent
                total_tkns == rec.tokens_allocated + rec.curve_tokens_bought
            IN  rec.curve_tokens_bought # buyer_record[b].curve_tokens_bought
                => /\ total_tkns > 0
                   /\ rec.entry_price * total_tkns <= total_sol
                   /\ total_sol - rec.entry_price * total_tkns < total_tkns
                   /\ rec.entry_price = average_entry_price(rec)
        ]_vars

\* a participant holds a presale allocation and curve tokens; the stored
\* price is the average over both, below the curve price paid
C32_Witness ==
    \E b \in Buyers :
       LET rec == buyer_record[b]
       IN  /\ rec.tokens_allocated > 0
           /\ rec.curve_tokens_bought > 0
           /\ rec.sol_deposited > 0
           /\ rec.entry_price = average_entry_price(rec)
           /\ (rec.sol_deposited + rec.curve_sol_spent)
                 % (rec.tokens_allocated + rec.curve_tokens_bought) # 0

\* C33: the stored entry_price of an existing ledger entry is lowered only by
\* that participant's own buy_curve: no buy_presale, finalize_launch,
\* sell_curve, graduate, update_price, register_market or transfer lowers it.
C33_EntryPriceNotLowered ==
    [][\A b \in Buyers :
         ( /\ buyer_record[b].exists
           /\ buyer_record'[b].entry_price < buyer_record[b].entry_price )
         => buyer_record'[b].curve_tokens_bought
              > buyer_record[b].curve_tokens_bought
      ]_vars

\* C34: from the moment curve_sol_collected >= graduation_threshold holds in
\* phase BondingCurve, graduate is enabled and stays enabled until it is
\* executed: no step other than graduate itself leaves the launch unable to
\* graduate.
C34_GraduationStaysEnabled ==
    /\ [](should_graduate(launch_pool) => graduate_result = "Ok")
    /\ [][should_graduate(launch_pool)
            => \/ launch_pool'.status = "Graduated"
               \/ /\ should_graduate(launch_pool')
                  /\ graduate_check(launch_pool') = "Ok"
        ]_vars

\* C35: every sell_curve that passes the balance check and the price floor
\* check has its net refund covered by the vault, also when presale-allocated
\* tokens are sold against the curve.
C35_VaultCoversRefund ==
    launch_pool.status = "BondingCurve"
    => \A b \in Buyers, a \in SellInputs :
          ( /\ a > 0
            /\ buyer_record[b].exists
            /\ a <= sell_available(buyer_record[b])
            /\ sell_current_price >= buyer_record[b].entry_price )
          => /\ vault >= sell_return(a)
             /\ sell_curve_result(b, a) # "VaultUnderflow"

\* C36: after the presale window has closed, every participant with a
\* deposit who has not been finalized can still be finalized: no operation,
\* start_bonding_curve in particular, takes finalize_launch away from them.
C36_NoStrandedDeposit ==
    \A b \in Buyers :
       ( /\ launch_pool.created
         /\ now >= launch_pool.end_time
         /\ buyer_record[b].sol_deposited > 0
         /\ finalize_count[b] = 0 )
       => finalize_launch_result(launch_pool.creator, b) = "Ok"

\* C37: for a participant holding a finalized presale allocation, a
\* successful buy_curve executed while the spot price is >= their entry_price
\* leaves their entry_price >= its value before the buy.
C37_BuyAboveFloorKeepsFloor ==
    [][\A b \in Buyers :
         ( /\ buyer_record[b].tokens_allocated > 0
           /\ buyer_record'[b].curve_tokens_bought
                > buyer_record[b].curve_tokens_bought
           /\ sell_current_price >= buyer_record[b].entry_price )
         => buyer_record'[b].entry_price >= buyer_record[b].entry_price
      ]_vars

\* C38: while the pool is in BondingCurve the spot price changes only
\* through buy_curve and sell_curve; a step that leaves tokens_sold_curve
\* alone (update_price among them) leaves the spot price alone.
C38_SpotPriceOnlyByTrades ==
    [][( /\ launch_pool.status = "BondingCurve"
         /\ launch_pool'.status = "BondingCurve"
         /\ launch_pool'.tokens_sold_curve = launch_pool.tokens_sold_curve )
       => bonding_curve_price(launch_pool'.price_lamports,
                              launch_pool'.slope_scaled,
                              launch_pool'.tokens_sold_curve)
            = sell_current_price
      ]_vars

\* C39: for a buyer with no presale deposit and no earlier curve purchase,
\* right after their first successful buy_curve the spot price at the new
\* tokens_sold_curve is >= their entry_price, so the price floor check of
\* sell_curve passes.
C39_FreshBuyerAtOrBelowSpot ==
    [][\A b \in Buyers :
         ( /\ buyer_record[b].sol_deposited = 0
           /\ buyer_record[b].curve_sol_spent = 0
           /\ buyer_record'[b].curve_tokens_bought
                > buyer_record[b].curve_tokens_bought )
         => /\ buyer_record'[b].entry_price
                 = buyer_record'[b].curve_sol_spent
                     \div buyer_record'[b].curve_tokens_bought
            /\ bonding_curve_price(launch_pool'.price_lamports,
                                   launch_pool'.slope_scaled,
                                   launch_pool'.tokens_sold_curve)
                 >= buyer_record'[b].entry_price
      ]_vars

\* a first purchase made higher up the curve, at an average above the base
\* price, is within the spot price
C39_Witness ==
    \E b \in Buyers :
       /\ buyer_record[b].sol_deposited = 0
       /\ buyer_record[b].tokens_allocated = 0
       /\ buyer_record[b].tokens_sold = 0
       /\ buyer_record[b].curve_tokens_bought = 10000000
       /\ launch_pool.tokens_sold_curve = 20000000
       /\ buyer_record[b].entry_price > launch_pool.price_lamports
       /\ sell_current_price >= buyer_record[b].entry_price

\* C40: once now >= end_time, total_sol_collected, total_supply and every
\* sol_deposited are frozen; each finalize_launch allocates the share
\* computed from these frozen values, so whatever the order of the finalize
\* calls and whatever runs between them, a finalized participant holds
\* floor(sol_deposited * total_supply / total_sol_collected).
C40_FinalizeOrderIndependent ==
    /\ [](\A b \in Buyers :
            finalize_count[b] > 0
            => /\ is_presale_over(launch_pool, now)
               /\ buyer_record[b].tokens_allocated
                    = finalize_tokens(buyer_record[b], launch_pool))
    /\ [][( /\ launch_pool.created
            /\ is_presale_over(launch_pool, now) )
          => /\ is_presale_over(launch_pool', now')
             /\ launch_pool'.total_sol_collected
                  = launch_pool.total_sol_collected
             /\ launch_pool'.total_supply = launch_pool.total_supply
             /\ \A b \in Buyers :
                  /\ buyer_record'[b].sol_deposited
                       = buyer_record[b].sol_deposited
                  /\ finalize_count'[b] # finalize_count[b]
                     => buyer_record'[b].tokens_allocated
                          = finalize_tokens(buyer_record[b], launch_pool)
         ]_vars

\* both participants finalized with an update_price between the two calls
\* (their entry prices differ), each holding their share of the supply
C40_Witness ==
    /\ finalize_count["alice"] > 0
    /\ finalize_count["bob"] > 0
    /\ buyer_record["alice"].entry_price # buyer_record["bob"].entry_price
    /\ buyer_record["alice"].sol_deposited = 3
    /\ buyer_record["bob"].sol_deposited = 7
    /\ buyer_record["alice"].tokens_allocated = 300
    /\ buyer_record["bob"].tokens_allocated = 700

====
